---- MODULE Spec2Model ----
(***************************************************************************)
(* Lookup tables of crates/vd_math/src/lut: axis validation, interval      *)
(* location, linear interpolation and the Lut1D / Lut2D / Lut3D            *)
(* constructors and lookups; and the ring-buffer MemoryRecorder of         *)
(* crates/vd_telemetry/src/recorder.rs.                                    *)
(*                                                                         *)
(* Numbers: an f64 is modelled as an exact rational.  Axis breakpoints,    *)
(* samples and query coordinates are drawn from the integers; fractions    *)
(* and interpolated values are pairs <<num, den>> in lowest terms with     *)
(* den > 0.  Rounding of f64 arithmetic is not modelled.                   *)
(* Indices are 0-based as in the source; Sequences are 1-based, so the     *)
(* element with source index i of a sequence s is s[i + 1].                *)
(***************************************************************************)
EXTENDS Integers, Sequences, FiniteSets, TLC

VARIABLES
    kind,    \* which constructor the caller invoked: "none", "lut1d", "lut2d", "lut3d"
    args,    \* the arguments handed to the constructor
    res,     \* the constructor's result: Ok or the LutError returned
    lut,     \* <<>> (no table) or <<t>>, t the constructed table
    query,   \* <<>> or the coordinates of the lookup performed
    out,     \* <<>> or <<o>>, o the outcome of that lookup
    hist,    \* the lookups performed on the table so far, oldest first
    pc,      \* per thread: the step of Lut3D::lookup it is about to take
    loc,     \* per thread: the local bindings of its call of Lut3D::lookup
    rec,     \* the MemoryRecorder
    ret,     \* the last recorder operation: its name, arguments and return value
    logged,  \* per channel index: the values logged since the last clear, oldest first
    stamp,   \* how many values the caller has logged so far
    fi       \* a call of find_interval: its arguments, position, lo, hi and result

lutVars == <<kind, args, res, lut, query, out, hist>>
thrVars == <<pc, loc>>
recVars == <<rec, ret, logged, stamp>>
vars == <<kind, args, res, lut, query, out, hist, pc, loc, rec, ret, logged, stamp, fi>>

----------------------------------------------------------------------------
(* Bounds of the model *)

\* longest axis handed to Lut1D::new
MaxLen1 == 4
\* longest axis handed to Lut2D::new
MaxLen2 == 3
\* longest axis handed to Lut3D::new
MaxLen3 == 2
\* longest axis of a table that is looked up repeatedly
MaxLenMany == 2
\* number of lookups performed on such a table
MaxLookups == 3
\* longest axis handed to find_interval on its own
MaxLenFind == 6
\* largest samples_per_channel of a recorder
MaxSamples == 2
\* largest max_channels of a recorder
MaxChannels == 3
\* number of values logged to a recorder, over all channels
MaxLogs == 4

----------------------------------------------------------------------------
(* Exact rational arithmetic standing for f64 *)

Abs(n) == IF n < 0 THEN -n ELSE n

RECURSIVE Gcd(_, _)
Gcd(a, b) == IF b = 0 THEN a ELSE Gcd(b, a % b)

\* the rational n / d, d # 0, in lowest terms with a positive denominator
Rat(n, d) ==
    LET g == Gcd(Abs(n), Abs(d))
        s == IF d < 0 THEN -1 ELSE 1
    IN  <<(s * n) \div g, (s * d) \div g>>

FromInt(n) == <<n, 1>>
RAdd(a, b) == Rat(a[1] * b[2] + b[1] * a[2], a[2] * b[2])
RSub(a, b) == Rat(a[1] * b[2] - b[1] * a[2], a[2] * b[2])
RMul(a, b) == Rat(a[1] * b[1], a[2] * b[2])

Zero == FromInt(0)
One  == FromInt(1)

----------------------------------------------------------------------------
(* error.rs: LutError, and the Ok result *)

\* fields a variant does not carry are "-" (axis) and 0 (index, expected, actual)
Result(tag, axis, index, expected, actual) ==
    [tag |-> tag, axis |-> axis, index |-> index,
     expected |-> expected, actual |-> actual]

Ok == Result("Ok", "-", 0, 0, 0)
EmptyXAxis == Result("EmptyXAxis", "-", 0, 0, 0)
EmptyYAxis == Result("EmptyYAxis", "-", 0, 0, 0)
EmptyZAxis == Result("EmptyZAxis", "-", 0, 0, 0)
DimensionMismatch(expected, actual) ==
    Result("DimensionMismatch", "-", 0, expected, actual)
UnsortedAxis(axis, index) == Result("UnsortedAxis", axis, index, 0, 0)

----------------------------------------------------------------------------
(* interp.rs *)

\* validate_axis's loop comparing with < : equal neighbours pass
RECURSIVE validate_loop_nonstrict(_, _, _)
validate_loop_nonstrict(axis, name, i) ==
    IF i >= Len(axis) THEN Ok
    ELSE IF axis[i + 1] < axis[i] THEN UnsortedAxis(name, i)
    ELSE validate_loop_nonstrict(axis, name, i + 1)

\* the loop of validate_axis from index i on: the first i' >= i with
\* axis[i'] <= axis[i' - 1] ends it with UnsortedAxis, the end of the axis with Ok
RECURSIVE validate_loop(_, _, _)
validate_loop(axis, name, i) ==
    IF i >= Len(axis) THEN Ok
    ELSE IF axis[i + 1] <= axis[i] THEN UnsortedAxis(name, i)
    ELSE validate_loop(axis, name, i + 1)

\* validate_axis without its is_empty test
validate_axis_no_empty_test(axis, name, empty_err) == validate_loop(axis, name, 1)

validate_axis(axis, name, empty_err) ==
    IF Len(axis) = 0 THEN empty_err
    ELSE validate_loop(axis, name, 1)

\* usize::saturating_sub
\* usize subtraction that does not stop at zero
saturating_sub_plain(a, b) == a - b

saturating_sub(a, b) == IF a >= b THEN a - b ELSE 0

\* the binary search loop never entered: the interval stays the whole axis
bsearch_no_loop(axis, x, lo, hi) == <<lo, hi>>

\* the binary search loop of find_interval: <<lo, hi>> at loop exit
RECURSIVE bsearch(_, _, _, _)
bsearch(axis, x, lo, hi) ==
    IF hi - lo > 1
    THEN LET mid == lo + (hi - lo) \div 2
         IN  IF axis[mid + 1] <= x
             THEN bsearch(axis, x, mid, hi)
             ELSE bsearch(axis, x, lo, mid)
    ELSE <<lo, hi>>

\* find_interval without the clamp below the first breakpoint
find_interval_no_low_clamp(axis, x) ==
    LET n == Len(axis)
    IN  IF x >= axis[n] THEN <<saturating_sub(n, 2), One>>
        ELSE LET b  == bsearch(axis, x, 0, n - 1)
                 x0 == axis[b[1] + 1]
                 x1 == axis[b[2] + 1]
             IN  <<b[1], Rat(x - x0, x1 - x0)>>

\* find_interval without the clamp above the last breakpoint
find_interval_no_high_clamp(axis, x) ==
    LET n == Len(axis)
    IN  IF x <= axis[1] THEN <<0, Zero>>
        ELSE LET b  == bsearch(axis, x, 0, n - 1)
                 x0 == axis[b[1] + 1]
                 x1 == axis[b[2] + 1]
             IN  <<b[1], Rat(x - x0, x1 - x0)>>

\* find_interval on a non-empty axis: <<lower index, fraction t>>
find_interval(axis, x) ==
    LET n == Len(axis)
    IN  IF x <= axis[1] THEN <<0, Zero>>
        ELSE IF x >= axis[n] THEN <<saturating_sub(n, 2), One>>
        ELSE LET b  == bsearch(axis, x, 0, n - 1)
                 x0 == axis[b[1] + 1]
                 x1 == axis[b[2] + 1]
             IN  <<b[1], Rat(x - x0, x1 - x0)>>

\* lerp with its end points exchanged
lerp_from_b(a, b, t) == RAdd(b, RMul(t, RSub(a, b)))

lerp(a, b, t) == RAdd(a, RMul(t, RSub(b, a)))

----------------------------------------------------------------------------
(* lut1d.rs, lut2d.rs, lut3d.rs: the tables *)

\* struct Lut1D / Lut2D / Lut3D; an axis the type does not have is <<>>
Table(x_axis, y_axis, z_axis, data) ==
    [x_axis |-> x_axis, y_axis |-> y_axis, z_axis |-> z_axis, data |-> data]

\* Result<Self, LutError>: Err(e) carries no table, Ok(t) carries t
Err(e) == [res |-> e, lut |-> <<>>]
OkTable(t) == [res |-> Ok, lut |-> <<t>>]

\* the ? operator: the first result that is not Ok, Ok when there is none
RECURSIVE first_err(_)
first_err(rs) ==
    IF rs = <<>> THEN Ok
    ELSE IF Head(rs) # Ok THEN Head(rs)
    ELSE first_err(Tail(rs))

\* Lut1D::new cutting surplus data off instead of rejecting it
Lut1D_new_truncating(x_axis, data) ==
    LET v == validate_axis(x_axis, "X", EmptyXAxis)
    IN  IF v # Ok THEN Err(v)
        ELSE IF Len(data) < Len(x_axis)
        THEN Err(DimensionMismatch(Len(x_axis), Len(data)))
        ELSE OkTable(Table(x_axis, <<>>, <<>>, SubSeq(data, 1, Len(x_axis))))

Lut1D_new(x_axis, data) ==
    LET v == validate_axis(x_axis, "X", EmptyXAxis)
    IN  IF v # Ok THEN Err(v)
        ELSE IF Len(data) # Len(x_axis)
        THEN Err(DimensionMismatch(Len(x_axis), Len(data)))
        ELSE OkTable(Table(x_axis, <<>>, <<>>, data))

\* Lut2D::new validating the Y axis before the X axis
Lut2D_new_y_first(x_axis, y_axis, data) ==
    LET v == first_err(<<validate_axis(y_axis, "Y", EmptyYAxis),
                         validate_axis(x_axis, "X", EmptyXAxis)>>)
        expected == Len(x_axis) * Len(y_axis)
    IN  IF v # Ok THEN Err(v)
        ELSE IF Len(data) # expected
        THEN Err(DimensionMismatch(expected, Len(data)))
        ELSE OkTable(Table(x_axis, y_axis, <<>>, data))

Lut2D_new(x_axis, y_axis, data) ==
    LET v == first_err(<<validate_axis(x_axis, "X", EmptyXAxis),
                         validate_axis(y_axis, "Y", EmptyYAxis)>>)
        expected == Len(x_axis) * Len(y_axis)
    IN  IF v # Ok THEN Err(v)
        ELSE IF Len(data) # expected
        THEN Err(DimensionMismatch(expected, Len(data)))
        ELSE OkTable(Table(x_axis, y_axis, <<>>, data))

\* Lut3D::new computing expected without the Z axis
Lut3D_new_expected_xy(x_axis, y_axis, z_axis, data) ==
    LET v == first_err(<<validate_axis(x_axis, "X", EmptyXAxis),
                         validate_axis(y_axis, "Y", EmptyYAxis),
                         validate_axis(z_axis, "Z", EmptyZAxis)>>)
        expected == Len(x_axis) * Len(y_axis)
    IN  IF v # Ok THEN Err(v)
        ELSE IF Len(data) # expected
        THEN Err(DimensionMismatch(expected, Len(data)))
        ELSE OkTable(Table(x_axis, y_axis, z_axis, data))

Lut3D_new(x_axis, y_axis, z_axis, data) ==
    LET v == first_err(<<validate_axis(x_axis, "X", EmptyXAxis),
                         validate_axis(y_axis, "Y", EmptyYAxis),
                         validate_axis(z_axis, "Z", EmptyZAxis)>>)
        expected == Len(x_axis) * Len(y_axis) * Len(z_axis)
    IN  IF v # Ok THEN Err(v)
        ELSE IF Len(data) # expected
        THEN Err(DimensionMismatch(expected, Len(data)))
        ELSE OkTable(Table(x_axis, y_axis, z_axis, data))

\* lookup writing through its receiver: the samples rotated by one place
after_lookup_clobber(self) ==
    [self EXCEPT !.data = Tail(self.data) \o <<Head(self.data)>>]

\* the table a lookup leaves: lookup takes &self and assigns to no field
after_lookup(self) == self

\* outcome of a lookup: the f64 returned, or the panic of an index out of bounds
Value(v) == [panic |-> FALSE, val |-> v]
Panic == [panic |-> TRUE, val |-> Zero]

\* self.data[i] for every i of idxs, in order: the sequence of samples read
in_bounds(data, idxs) == \A k \in 1..Len(idxs) : idxs[k] < Len(data)
sample(data, i) == FromInt(data[i + 1])

\* the indices of data that Lut1D::lookup reads, in the order it reads them
Lut1D_reads(self, x) ==
    LET i == find_interval(self.x_axis, x)[1]
    IN  <<i, i + 1>>

Lut1D_lookup(self, x) ==
    LET iv == find_interval(self.x_axis, x)
        r  == Lut1D_reads(self, x)
    IN  IF ~in_bounds(self.data, r) THEN Panic
        ELSE Value(lerp(sample(self.data, r[1]), sample(self.data, r[2]), iv[2]))

\* the indices of data that Lut2D::lookup reads: v00, v10, v01, v11
Lut2D_reads(self, x, y) ==
    LET xi == find_interval(self.x_axis, x)[1]
        yi == find_interval(self.y_axis, y)[1]
        x_len == Len(self.x_axis)
    IN  <<yi * x_len + xi,
          yi * x_len + xi + 1,
          (yi + 1) * x_len + xi,
          (yi + 1) * x_len + xi + 1>>

\* Lut2D::lookup with the fractions of the two axes exchanged
Lut2D_lookup_ty_across_x(self, x, y) ==
    LET tx == find_interval(self.x_axis, x)[2]
        ty == find_interval(self.y_axis, y)[2]
        r  == Lut2D_reads(self, x, y)
    IN  IF ~in_bounds(self.data, r) THEN Panic
        ELSE LET v0 == lerp(sample(self.data, r[1]), sample(self.data, r[2]), ty)
                 v1 == lerp(sample(self.data, r[3]), sample(self.data, r[4]), ty)
             IN  Value(lerp(v0, v1, tx))

Lut2D_lookup(self, x, y) ==
    LET tx == find_interval(self.x_axis, x)[2]
        ty == find_interval(self.y_axis, y)[2]
        r  == Lut2D_reads(self, x, y)
    IN  IF ~in_bounds(self.data, r) THEN Panic
        ELSE LET v00 == sample(self.data, r[1])
                 v10 == sample(self.data, r[2])
                 v01 == sample(self.data, r[3])
                 v11 == sample(self.data, r[4])
                 v0  == lerp(v00, v10, tx)
                 v1  == lerp(v01, v11, tx)
             IN  Value(lerp(v0, v1, ty))

\* idx with the strides of ix and iy exchanged
idx_y_fastest(nx, nxy, ix, iy, iz) == iz * nxy + ix * nx + iy

\* the closure idx of Lut3D::lookup
idx(nx, nxy, ix, iy, iz) == iz * nxy + iy * nx + ix

\* the indices of data that Lut3D::lookup reads: c000, c100, c010, c110,
\* c001, c101, c011, c111
Lut3D_reads(self, x, y, z) ==
    LET xi == find_interval(self.x_axis, x)[1]
        yi == find_interval(self.y_axis, y)[1]
        zi == find_interval(self.z_axis, z)[1]
        nx == Len(self.x_axis)
        nxy == nx * Len(self.y_axis)
    IN  <<idx(nx, nxy, xi, yi, zi),
          idx(nx, nxy, xi + 1, yi, zi),
          idx(nx, nxy, xi, yi + 1, zi),
          idx(nx, nxy, xi + 1, yi + 1, zi),
          idx(nx, nxy, xi, yi, zi + 1),
          idx(nx, nxy, xi + 1, yi, zi + 1),
          idx(nx, nxy, xi, yi + 1, zi + 1),
          idx(nx, nxy, xi + 1, yi + 1, zi + 1)>>

\* Lut3D::lookup with the fractions of Y and Z exchanged
Lut3D_lookup_tz_across_y(self, x, y, z) ==
    LET tx == find_interval(self.x_axis, x)[2]
        ty == find_interval(self.y_axis, y)[2]
        tz == find_interval(self.z_axis, z)[2]
        r  == Lut3D_reads(self, x, y, z)
    IN  IF ~in_bounds(self.data, r) THEN Panic
        ELSE LET c == [k \in 1..8 |-> sample(self.data, r[k])]
                 c0 == lerp(lerp(c[1], c[2], tx), lerp(c[3], c[4], tx), tz)
                 c1 == lerp(lerp(c[5], c[6], tx), lerp(c[7], c[8], tx), tz)
             IN  Value(lerp(c0, c1, ty))

Lut3D_lookup(self, x, y, z) ==
    LET tx == find_interval(self.x_axis, x)[2]
        ty == find_interval(self.y_axis, y)[2]
        tz == find_interval(self.z_axis, z)[2]
        r  == Lut3D_reads(self, x, y, z)
    IN  IF ~in_bounds(self.data, r) THEN Panic
        ELSE LET c000 == sample(self.data, r[1])
                 c100 == sample(self.data, r[2])
                 c010 == sample(self.data, r[3])
                 c110 == sample(self.data, r[4])
                 c001 == sample(self.data, r[5])
                 c101 == sample(self.data, r[6])
                 c011 == sample(self.data, r[7])
                 c111 == sample(self.data, r[8])
                 c00  == lerp(c000, c100, tx)
                 c10  == lerp(c010, c110, tx)
                 c01  == lerp(c001, c101, tx)
                 c11  == lerp(c011, c111, tx)
                 c0   == lerp(c00, c10, ty)
                 c1   == lerp(c01, c11, ty)
             IN  Value(lerp(c0, c1, tz))

----------------------------------------------------------------------------
(* Inputs the caller may supply *)

\* breakpoint values offered to an axis of at most n elements
Coords(n) == {2 * k : k \in 0..(n - 1)}

\* every sequence of at most n breakpoints, sorted or not, empty included
AxisInputs(n) == UNION {[1..k -> Coords(n)] : k \in 0..n}

\* query coordinates: below, on, between and above the breakpoints
Queries(n) == (-1)..(2 * n - 1)

\* two families of sample values; the sample with source index i
GenSample(pat, i) == IF pat = "square" THEN i * i ELSE ((5 * i + 3) % 7) - 3

\* data arrays one sample short of, equal to and one sample beyond the
\* product of the axis lengths, filled from the families pats
DataOf(pats, product) ==
    {[i \in 1..len |-> GenSample(pat, i - 1)] :
        pat \in pats,
        len \in {l \in (product - 1)..(product + 1) : l >= 0}}

DataInputs(product) == DataOf({"square", "scatter"}, product)

\* the tables of the unit tests, their coordinates counted in halves so that
\* the breakpoints 0.0, 1.0, 2.0 are 0, 2, 4 and the midpoint 0.5 is 1
TestData2(x, y) ==
    IF x = <<0, 2, 4>> /\ y = <<0, 2>>
    THEN {<<0, 10, 20, 100, 110, 120>>} ELSE {}
TestData3(x, y, z) ==
    IF x = <<0, 2>> /\ y = <<0, 2>> /\ z = <<0, 2>>
    THEN {<<0, 1, 10, 11, 100, 101, 110, 111>>} ELSE {}

----------------------------------------------------------------------------
(* The caller: constructs one table, then looks a point up in it *)

NoArgs == [x |-> <<>>, y |-> <<>>, z |-> <<>>, data |-> <<>>]
NoResult == Result("None", "-", 0, 0, 0)

\* no table has been constructed
NoTable ==
    /\ kind = "none"
    /\ args = NoArgs
    /\ res = NoResult
    /\ lut = <<>>
    /\ query = <<>>
    /\ out = <<>>
    /\ hist = <<>>

\* the threads that may call lookup on one shared table
Threads == {"t1", "t2"}
\* the bindings of a call of Lut3D::lookup that has not started
NoLocals == [q |-> <<>>, xi |-> 0, tx |-> Zero, yi |-> 0, ty |-> Zero,
             zi |-> 0, tz |-> Zero, c |-> <<>>, r |-> <<>>]
\* no thread has called lookup
ThreadsIdle ==
    /\ pc = [t \in Threads |-> "idle"]
    /\ loc = [t \in Threads |-> NoLocals]
\* a call of a recorder method: its name, the channel ids and values passed,
\* the name and unit passed, the ChannelId returned, and whether it panicked
Call(op, ids, vals, name, unit, id, panic) ==
    [op |-> op, ids |-> ids, vals |-> vals, name |-> name, unit |-> unit,
     id |-> id, panic |-> panic]
\* a call of find_interval(axis, x): where it stands ("start", "loop", "done"),
\* the lo and hi of its binary search, how many times the loop body has run,
\* and <<>> or <<r>>, r the pair it returned
Search(at, axis, x, lo, hi, iters, r) ==
    [at |-> at, axis |-> axis, x |-> x, lo |-> lo, hi |-> hi, iters |-> iters, r |-> r]
NoSearch == fi = Search("idle", <<>>, 0, 0, 0, 0, <<>>)
\* no recorder has been constructed
NoCall == Call("none", <<>>, <<>>, "", "", 0, FALSE)
NoRecorder ==
    /\ rec = <<>>
    /\ ret = NoCall
    /\ logged = <<>>
    /\ stamp = 0

Init ==
    /\ kind = "none"
    /\ args = NoArgs
    /\ res = NoResult
    /\ lut = <<>>
    /\ query = <<>>
    /\ out = <<>>
    /\ hist = <<>>
    /\ ThreadsIdle
    /\ NoRecorder
    /\ NoSearch

New1D ==
    /\ kind = "none"
    /\ \E x \in AxisInputs(MaxLen1) :
       \E d \in DataInputs(Len(x)) :
          LET r == Lut1D_new(x, d)
          IN  /\ kind' = "lut1d"
              /\ args' = [x |-> x, y |-> <<>>, z |-> <<>>, data |-> d]
              /\ res' = r.res
              /\ lut' = r.lut
    /\ UNCHANGED <<query, out, hist, thrVars, recVars, fi>>

New2D ==
    /\ kind = "none"
    /\ \E x \in AxisInputs(MaxLen2), y \in AxisInputs(MaxLen2) :
       \E d \in DataInputs(Len(x) * Len(y)) \cup TestData2(x, y) :
          LET r == Lut2D_new(x, y, d)
          IN  /\ kind' = "lut2d"
              /\ args' = [x |-> x, y |-> y, z |-> <<>>, data |-> d]
              /\ res' = r.res
              /\ lut' = r.lut
    /\ UNCHANGED <<query, out, hist, thrVars, recVars, fi>>

New3D ==
    /\ kind = "none"
    /\ \E x \in AxisInputs(MaxLen3), y \in AxisInputs(MaxLen3),
          z \in AxisInputs(MaxLen3) :
       \E d \in DataInputs(Len(x) * Len(y) * Len(z)) \cup TestData3(x, y, z) :
          LET r == Lut3D_new(x, y, z, d)
          IN  /\ kind' = "lut3d"
              /\ args' = [x |-> x, y |-> y, z |-> z, data |-> d]
              /\ res' = r.res
              /\ lut' = r.lut
    /\ UNCHANGED <<query, out, hist, thrVars, recVars, fi>>

\* one call of lookup with coordinates drawn from qs: the outcome is recorded,
\* and the table is what the call leaves of it
Call1D(qs) ==
    /\ kind = "lut1d" /\ lut # <<>>
    /\ \E x \in qs :
          /\ query' = <<x>>
          /\ out' = <<Lut1D_lookup(lut[1], x)>>
          /\ hist' = Append(hist, [q |-> <<x>>, o |-> Lut1D_lookup(lut[1], x)])
    /\ lut' = <<after_lookup(lut[1])>>
    /\ UNCHANGED <<kind, args, res, thrVars, recVars, fi>>

Call2D(qs) ==
    /\ kind = "lut2d" /\ lut # <<>>
    /\ \E x \in qs, y \in qs :
          /\ query' = <<x, y>>
          /\ out' = <<Lut2D_lookup(lut[1], x, y)>>
          /\ hist' = Append(hist, [q |-> <<x, y>>, o |-> Lut2D_lookup(lut[1], x, y)])
    /\ lut' = <<after_lookup(lut[1])>>
    /\ UNCHANGED <<kind, args, res, thrVars, recVars, fi>>

Call3D(qs) ==
    /\ kind = "lut3d" /\ lut # <<>>
    /\ \E x \in qs, y \in qs, z \in qs :
          /\ query' = <<x, y, z>>
          /\ out' = <<Lut3D_lookup(lut[1], x, y, z)>>
          /\ hist' = Append(hist, [q |-> <<x, y, z>>, o |-> Lut3D_lookup(lut[1], x, y, z)])
    /\ lut' = <<after_lookup(lut[1])>>
    /\ UNCHANGED <<kind, args, res, thrVars, recVars, fi>>

Lookup1D == out = <<>> /\ Call1D(Queries(MaxLen1))
Lookup2D == out = <<>> /\ Call2D(Queries(MaxLen2))
Lookup3D == out = <<>> /\ Call3D(Queries(MaxLen3))

Next == New1D \/ New2D \/ New3D \/ Lookup1D \/ Lookup2D \/ Lookup3D

Spec == Init /\ [][Next]_vars

----------------------------------------------------------------------------
(* The caller that keeps one constructed table and looks points up in it   *)
(* again and again                                                         *)

\* the state a successful constructor call leaves
Constructed(k, a, r) ==
    /\ r.lut # <<>>
    /\ kind = k
    /\ args = a
    /\ res = r.res
    /\ lut = r.lut
    /\ query = <<>>
    /\ out = <<>>
    /\ hist = <<>>
    /\ ThreadsIdle
    /\ NoRecorder
    /\ NoSearch

InitMany ==
    \E x \in AxisInputs(MaxLenMany), y \in AxisInputs(MaxLenMany),
       z \in AxisInputs(MaxLenMany) :
       \/ \E d \in DataOf({"scatter"}, Len(x)) :
             /\ y = <<>> /\ z = <<>>
             /\ Constructed("lut1d", [x |-> x, y |-> y, z |-> z, data |-> d],
                            Lut1D_new(x, d))
       \/ \E d \in DataOf({"scatter"}, Len(x) * Len(y)) :
             /\ z = <<>>
             /\ Constructed("lut2d", [x |-> x, y |-> y, z |-> z, data |-> d],
                            Lut2D_new(x, y, d))
       \/ \E d \in DataOf({"scatter"}, Len(x) * Len(y) * Len(z)) :
             Constructed("lut3d", [x |-> x, y |-> y, z |-> z, data |-> d],
                         Lut3D_new(x, y, z, d))

\* query coordinates of the repeated lookups: between the breakpoints and
\* above them
ManyQueries == {1, 3}

Again1D == Len(hist) < MaxLookups /\ Call1D(ManyQueries)
Again2D == Len(hist) < MaxLookups /\ Call2D(ManyQueries)
Again3D == Len(hist) < MaxLookups /\ Call3D(ManyQueries)

NextMany == Again1D \/ Again2D \/ Again3D

SpecMany == InitMany /\ [][NextMany]_vars

----------------------------------------------------------------------------
(* Threads that call Lut3D::lookup on one shared table; the steps of their *)
(* calls interleave                                                        *)

\* a let binding of lookup kept in one place for every thread
bind_shared(frames, t, name, v) ==
    [u \in DOMAIN frames |-> [frames[u] EXCEPT ![name] = v]]

\* a let binding of lookup: it is kept in the frame of the calling thread
bind(frames, t, name, v) == [frames EXCEPT ![t][name] = v]

\* the interpolation of the eight corners c000, c100, c010, c110, c001, c101,
\* c011, c111: along X, then Y, then Z
trilerp(c, tx, ty, tz) ==
    LET c00 == lerp(c[1], c[2], tx)
        c10 == lerp(c[3], c[4], tx)
        c01 == lerp(c[5], c[6], tx)
        c11 == lerp(c[7], c[8], tx)
        c0  == lerp(c00, c10, ty)
        c1  == lerp(c01, c11, ty)
    IN  lerp(c0, c1, tz)

InitConc ==
    \E x \in AxisInputs(MaxLen3), y \in AxisInputs(MaxLen3),
       z \in AxisInputs(MaxLen3) :
       \E d \in DataOf({"scatter"}, Len(x) * Len(y) * Len(z)) :
          Constructed("lut3d", [x |-> x, y |-> y, z |-> z, data |-> d],
                      Lut3D_new(x, y, z, d))

\* thread t calls lookup(x, y, z) on the shared table
Begin(t) ==
    /\ pc[t] = "idle"
    /\ \E x \in ManyQueries, y \in ManyQueries, z \in ManyQueries :
          loc' = bind(loc, t, "q", <<x, y, z>>)
    /\ pc' = [pc EXCEPT ![t] = "x"]
    /\ UNCHANGED <<lutVars, recVars, fi>>

\* let (xi, tx) = find_interval(&self.x_axis, x)
LocateX(t) ==
    /\ pc[t] = "x"
    /\ LET iv == find_interval(lut[1].x_axis, loc[t].q[1])
       IN  loc' = bind(bind(loc, t, "xi", iv[1]), t, "tx", iv[2])
    /\ pc' = [pc EXCEPT ![t] = "y"]
    /\ UNCHANGED <<lutVars, recVars, fi>>

LocateY(t) ==
    /\ pc[t] = "y"
    /\ LET iv == find_interval(lut[1].y_axis, loc[t].q[2])
       IN  loc' = bind(bind(loc, t, "yi", iv[1]), t, "ty", iv[2])
    /\ pc' = [pc EXCEPT ![t] = "z"]
    /\ UNCHANGED <<lutVars, recVars, fi>>

LocateZ(t) ==
    /\ pc[t] = "z"
    /\ LET iv == find_interval(lut[1].z_axis, loc[t].q[3])
       IN  loc' = bind(bind(loc, t, "zi", iv[1]), t, "tz", iv[2])
    /\ pc' = [pc EXCEPT ![t] = "fetch"]
    /\ UNCHANGED <<lutVars, recVars, fi>>

\* the next corner read self.data[idx(..)]: the read panics when the index is
\* out of bounds, and the call ends there
Fetch(t) ==
    /\ pc[t] = "fetch"
    /\ LET k   == Len(loc[t].c)
           nx  == Len(lut[1].x_axis)
           nxy == nx * Len(lut[1].y_axis)
           i   == idx(nx, nxy, loc[t].xi + (k % 2), loc[t].yi + ((k \div 2) % 2),
                      loc[t].zi + (k \div 4))
       IN  IF i >= Len(lut[1].data)
           THEN /\ loc' = bind(loc, t, "r", <<Panic>>)
                /\ pc' = [pc EXCEPT ![t] = "done"]
                /\ lut' = <<after_lookup(lut[1])>>
           ELSE /\ loc' = bind(loc, t, "c", Append(loc[t].c, sample(lut[1].data, i)))
                /\ pc' = [pc EXCEPT ![t] = IF k = 7 THEN "interp" ELSE "fetch"]
                /\ lut' = lut
    /\ UNCHANGED <<kind, args, res, query, out, hist, recVars, fi>>

\* the seven lerps, and the return
Interp(t) ==
    /\ pc[t] = "interp"
    /\ loc' = bind(loc, t, "r",
                   <<Value(trilerp(loc[t].c, loc[t].tx, loc[t].ty, loc[t].tz))>>)
    /\ pc' = [pc EXCEPT ![t] = "done"]
    /\ lut' = <<after_lookup(lut[1])>>
    /\ UNCHANGED <<kind, args, res, query, out, hist, recVars, fi>>

Step(t) ==
    Begin(t) \/ LocateX(t) \/ LocateY(t) \/ LocateZ(t) \/ Fetch(t) \/ Interp(t)

NextConc == \E t \in Threads : Step(t)

SpecConc == InitConc /\ [][NextConc]_vars

----------------------------------------------------------------------------
(* One call of find_interval, statement by statement *)

\* the low clamp taken only strictly below the first breakpoint
clamp_low_strict(axis, x) == x < axis[1]

\* if x <= axis[0]
clamp_low(axis, x) == x <= axis[1]

\* the high clamp taken only strictly above the last breakpoint
clamp_high_strict(axis, x) == x > axis[Len(axis)]

\* if x >= axis[n - 1]
clamp_high(axis, x) == x >= axis[Len(axis)]

\* the loop going on until lo and hi meet
searching_until_equal(lo, hi) == hi - lo > 0

\* while hi - lo > 1
searching(lo, hi) == hi - lo > 1

\* the loop body keeping a breakpoint equal to x on the high side
narrow_strict(axis, x, lo, hi) ==
    LET mid == lo + (hi - lo) \div 2
    IN  IF axis[mid + 1] < x THEN <<mid, hi>> ELSE <<lo, mid>>

\* the loop body: <<lo, hi>> after one iteration
narrow(axis, x, lo, hi) ==
    LET mid == lo + (hi - lo) \div 2
    IN  IF axis[mid + 1] <= x THEN <<mid, hi>> ELSE <<lo, mid>>

\* let t = (x - x0) / (x1 - x0), x0 = axis[lo], x1 = axis[hi]
fraction(axis, x, lo, hi) == Rat(x - axis[lo + 1], axis[hi + 1] - axis[lo + 1])

\* the breakpoints of S in increasing order
RECURSIVE Ascending(_)
Ascending(S) ==
    IF S = {} THEN <<>>
    ELSE LET m == CHOOSE a \in S : \A b \in S : a <= b
         IN  <<m>> \o Ascending(S \ {m})

\* the axes a constructed table can hold: non-empty and strictly increasing
StrictAxes(n) == {Ascending(S) : S \in (SUBSET Coords(n)) \ {{}}}

InitFind ==
    /\ NoTable
    /\ ThreadsIdle
    /\ NoRecorder
    /\ \E axis \in StrictAxes(MaxLenFind), x \in Queries(MaxLenFind) :
          fi = Search("start", axis, x, 0, 0, 0, <<>>)

ClampLow ==
    /\ fi.at = "start"
    /\ clamp_low(fi.axis, fi.x)
    /\ fi' = [fi EXCEPT !.at = "done", !.r = <<<<0, Zero>>>>]
    /\ UNCHANGED <<lutVars, thrVars, recVars>>

ClampHigh ==
    /\ fi.at = "start"
    /\ ~clamp_low(fi.axis, fi.x)
    /\ clamp_high(fi.axis, fi.x)
    /\ fi' = [fi EXCEPT !.at = "done",
                        !.r = <<<<saturating_sub(Len(fi.axis), 2), One>>>>]
    /\ UNCHANGED <<lutVars, thrVars, recVars>>

\* let mut lo = 0; let mut hi = n - 1
EnterLoop ==
    /\ fi.at = "start"
    /\ ~clamp_low(fi.axis, fi.x)
    /\ ~clamp_high(fi.axis, fi.x)
    /\ fi' = [fi EXCEPT !.at = "loop", !.lo = 0, !.hi = Len(fi.axis) - 1]
    /\ UNCHANGED <<lutVars, thrVars, recVars>>

Iterate ==
    /\ fi.at = "loop"
    /\ searching(fi.lo, fi.hi)
    /\ fi.iters < MaxLenFind
    /\ LET b == narrow(fi.axis, fi.x, fi.lo, fi.hi)
       IN  fi' = [fi EXCEPT !.lo = b[1], !.hi = b[2], !.iters = @ + 1]
    /\ UNCHANGED <<lutVars, thrVars, recVars>>

ExitLoop ==
    /\ fi.at = "loop"
    /\ ~searching(fi.lo, fi.hi)
    /\ fi' = [fi EXCEPT !.at = "done",
                        !.r = <<<<fi.lo, fraction(fi.axis, fi.x, fi.lo, fi.hi)>>>>]
    /\ UNCHANGED <<lutVars, thrVars, recVars>>

NextFind == ClampLow \/ ClampHigh \/ EnterLoop \/ Iterate \/ ExitLoop

SpecFind == InitFind /\ [][NextFind]_vars

\* the call is sequential code that nothing else can hold up: a statement that
\* can run does run
SpecFindFair == SpecFind /\ WF_vars(NextFind)

----------------------------------------------------------------------------
(* The ring-buffer recorder of crates/vd_telemetry/src/recorder.rs.        *)
(* A ChannelId is the 32 bits of its u32 read as a signed integer, so that  *)
(* u32::MAX is -1 and every id below 2^31 is itself; a logged f64 is an    *)
(* integer, no arithmetic is done on it; an Option is <<>> for None and    *)
(* <<v>> for Some(v).                                                      *)

\* u32::MAX, the id of the dummy channel
U32_MAX == -1

\* id.index() >= len: as a usize, an id of 2^31 or more is beyond every length
beyond(id, len) == id < 0 \/ id >= len

RingBufferConfig(samples_per_channel, max_channels) ==
    [samples_per_channel |-> samples_per_channel, max_channels |-> max_channels]

\* libm::ceil of a rational, and the cast of the result to usize, which
\* takes what is below 0 to 0
ceil(q) == -((-q[1]) \div q[2])
as_usize(n) == IF n < 0 THEN 0 ELSE n

for_duration(duration_secs, sample_rate_hz, max_channels) ==
    LET samples == as_usize(ceil(RMul(duration_secs, sample_rate_hz)))
    IN  RingBufferConfig(samples, max_channels)

ChannelMetadata_new(name, unit) == [name |-> name, unit |-> unit]

MemoryRecorder_new(config) ==
    [metadata |-> <<>>, data |-> <<>>, write_positions |-> <<>>,
     sample_counts |-> <<>>, config |-> config]

channel_count(self) == Len(self.metadata)

channel_metadata(self, id) ==
    IF beyond(id, Len(self.metadata)) THEN <<>> ELSE <<self.metadata[id + 1]>>

sample_count(self, id) ==
    IF beyond(id, Len(self.sample_counts)) THEN 0 ELSE self.sample_counts[id + 1]

\* the slice self.data[from..to] of source indices from <= i < to
slice(self, from, to) == SubSeq(self.data, from + 1, to)

\* get_channel_data returning a full buffer in storage order
get_channel_data_unrotated(self, id) ==
    IF beyond(id, Len(self.metadata)) THEN <<>>
    ELSE LET samples == self.config.samples_per_channel
             base    == id * samples
             count   == self.sample_counts[id + 1]
         IN  IF count < samples
             THEN <<slice(self, base, base + count)>>
             ELSE <<slice(self, base, base + samples)>>

get_channel_data(self, id) ==
    IF beyond(id, Len(self.metadata)) THEN <<>>
    ELSE LET samples   == self.config.samples_per_channel
             base      == id * samples
             count     == self.sample_counts[id + 1]
             write_pos == self.write_positions[id + 1]
         IN  IF count < samples
             THEN <<slice(self, base, base + count)>>
             ELSE <<slice(self, base + write_pos, base + samples)
                        \o slice(self, base, base + write_pos)>>

\* clear leaving the write positions where they are
clear_keeps_positions(self) ==
    [self EXCEPT
        !.sample_counts = [i \in DOMAIN self.sample_counts |-> 0],
        !.data = [i \in DOMAIN self.data |-> 0]]

clear(self) ==
    [self EXCEPT
        !.write_positions = [i \in DOMAIN self.write_positions |-> 0],
        !.sample_counts = [i \in DOMAIN self.sample_counts |-> 0],
        !.data = [i \in DOMAIN self.data |-> 0]]

\* register_channel without the test against max_channels
register_channel_unlimited(self, name, unit) ==
    [self |-> [self EXCEPT
         !.metadata = Append(@, ChannelMetadata_new(name, unit)),
         !.write_positions = Append(@, 0),
         !.sample_counts = Append(@, 0),
         !.data = @ \o [i \in 1..self.config.samples_per_channel |-> 0]],
     id |-> Len(self.metadata)]

\* register_channel: the recorder it leaves and the ChannelId it returns
register_channel(self, name, unit) ==
    LET id == Len(self.metadata)
    IN  IF Len(self.metadata) >= self.config.max_channels
        THEN [self |-> self, id |-> U32_MAX]
        ELSE [self |-> [self EXCEPT
                  !.metadata = Append(@, ChannelMetadata_new(name, unit)),
                  !.write_positions = Append(@, 0),
                  !.sample_counts = Append(@, 0),
                  !.data = @ \o [i \in 1..self.config.samples_per_channel |-> 0]],
              id |-> id]

\* the outcome of a call that returns nothing: the recorder it leaves, or the
\* panic of an index out of bounds, which leaves the recorder as it was
Done(self) == [self |-> self, panic |-> FALSE]
Abort(self) == [self |-> self, panic |-> TRUE]

\* log counting every sample, the overwritten ones included
log_counting_on(self, id, value) ==
    IF beyond(id, Len(self.metadata)) THEN Done(self)
    ELSE LET samples   == self.config.samples_per_channel
             base      == id * samples
             write_pos == self.write_positions[id + 1]
         IN  IF base + write_pos >= Len(self.data) \/ samples = 0
             THEN Abort(self)
             ELSE Done([self EXCEPT
                      !.data[base + write_pos + 1] = value,
                      !.write_positions[id + 1] = (write_pos + 1) % samples,
                      !.sample_counts[id + 1] = @ + 1])

\* log taking the channel index itself as the base of the channel's slice
log_unscaled_base(self, id, value) ==
    IF beyond(id, Len(self.metadata)) THEN Done(self)
    ELSE LET samples   == self.config.samples_per_channel
             base      == id
             write_pos == self.write_positions[id + 1]
         IN  IF base + write_pos >= Len(self.data) \/ samples = 0
             THEN Abort(self)
             ELSE Done([self EXCEPT
                      !.data[base + write_pos + 1] = value,
                      !.write_positions[id + 1] = (write_pos + 1) % samples,
                      !.sample_counts[id + 1] =
                          IF @ < samples THEN @ + 1 ELSE @])

\* log sending the samples of unregistered ids to the last channel
log_to_last(self, id, value) ==
    IF Len(self.metadata) = 0 THEN Done(self)
    ELSE LET ch        == IF beyond(id, Len(self.metadata))
                          THEN Len(self.metadata) - 1 ELSE id
             samples   == self.config.samples_per_channel
             base      == ch * samples
             write_pos == self.write_positions[ch + 1]
         IN  IF base + write_pos >= Len(self.data) \/ samples = 0
             THEN Abort(self)
             ELSE Done([self EXCEPT
                      !.data[base + write_pos + 1] = value,
                      !.write_positions[ch + 1] = (write_pos + 1) % samples,
                      !.sample_counts[ch + 1] =
                          IF @ < samples THEN @ + 1 ELSE @])

log(self, id, value) ==
    IF beyond(id, Len(self.metadata)) THEN Done(self)
    ELSE LET samples   == self.config.samples_per_channel
             base      == id * samples
             write_pos == self.write_positions[id + 1]
         IN  IF base + write_pos >= Len(self.data) \/ samples = 0
             THEN Abort(self)
             ELSE Done([self EXCEPT
                      !.data[base + write_pos + 1] = value,
                      !.write_positions[id + 1] = (write_pos + 1) % samples,
                      !.sample_counts[id + 1] =
                          IF @ < samples THEN @ + 1 ELSE @])

\* a call made on the outcome of the call before it: skipped after a panic
then_log(o, id, value) == IF o.panic THEN o ELSE log(o.self, id, value)

log_vector(self, id_x, id_y, id_z, v) ==
    then_log(then_log(log(self, id_x, v[1]), id_y, v[2]), id_z, v[3])

----------------------------------------------------------------------------
(* The caller of the recorder: registers channels, logs values and vectors *)
(* and clears, in any order.  The k-th value logged is k, as in the unit   *)
(* tests, so that every sample tells when it was logged.                   *)

\* the ids a caller may pass: registered or not, the dummy id included
Ids == (0..(MaxChannels - 1)) \cup {U32_MAX}

ChannelNames == {[name |-> "speed", unit |-> "m/s"], [name |-> "pos", unit |-> "m"]}

\* durations in seconds, counted in halves, and sample rates in Hz, that
\* for_duration turns into 0..MaxSamples samples per channel
Durations == {Rat(d, 2) : d \in 0..MaxSamples}
Rates == {FromInt(r) : r \in 0..2}

InitRec ==
    /\ NoTable
    /\ ThreadsIdle
    /\ \/ \E n \in 0..MaxSamples, c \in 0..MaxChannels :
              rec = MemoryRecorder_new(RingBufferConfig(n, c))
       \/ \E d \in Durations, r \in Rates, c \in 0..MaxChannels :
              rec = MemoryRecorder_new(for_duration(d, r, c))
    /\ ret = NoCall
    /\ logged = <<>>
    /\ stamp = 0
    /\ NoSearch

\* the values logged since the last clear, once the values vs have been
\* logged, one after the other, to the channels ids
RECURSIVE Logged(_, _, _)
Logged(h, ids, vs) ==
    IF ids = <<>> THEN h
    ELSE Logged(IF Head(ids) \in DOMAIN h
                THEN [h EXCEPT ![Head(ids)] = Append(@, Head(vs))]
                ELSE h,
                Tail(ids), Tail(vs))

RegisterChannel ==
    /\ ~ret.panic
    /\ \E m \in ChannelNames :
          LET r == register_channel(rec, m.name, m.unit)
          IN  /\ rec' = r.self
              /\ ret' = Call("register_channel", <<>>, <<>>, m.name, m.unit, r.id, FALSE)
              /\ logged' = IF r.id = U32_MAX THEN logged
                           ELSE [i \in DOMAIN logged \cup {r.id} |->
                                    IF i \in DOMAIN logged THEN logged[i] ELSE <<>>]
    /\ UNCHANGED <<stamp, lutVars, thrVars, fi>>

Log ==
    /\ ~ret.panic
    /\ stamp + 1 <= MaxLogs
    /\ \E id \in Ids :
          LET r == log(rec, id, stamp + 1)
          IN  /\ rec' = r.self
              /\ ret' = Call("log", <<id>>, <<stamp + 1>>, "", "", 0, r.panic)
              /\ logged' = Logged(logged, <<id>>, <<stamp + 1>>)
    /\ stamp' = stamp + 1
    /\ UNCHANGED <<lutVars, thrVars, fi>>

LogVector ==
    /\ ~ret.panic
    /\ stamp + 3 <= MaxLogs
    /\ \E id_x \in Ids, id_y \in Ids, id_z \in Ids :
          LET v == <<stamp + 1, stamp + 2, stamp + 3>>
              r == log_vector(rec, id_x, id_y, id_z, v)
          IN  /\ rec' = r.self
              /\ ret' = Call("log_vector", <<id_x, id_y, id_z>>, v, "", "", 0, r.panic)
              /\ logged' = Logged(logged, <<id_x, id_y, id_z>>, v)
    /\ stamp' = stamp + 3
    /\ UNCHANGED <<lutVars, thrVars, fi>>

Clear ==
    /\ ~ret.panic
    /\ rec' = clear(rec)
    /\ ret' = Call("clear", <<>>, <<>>, "", "", 0, FALSE)
    /\ logged' = [i \in DOMAIN logged |-> <<>>]
    /\ UNCHANGED <<stamp, lutVars, thrVars, fi>>

NextRec == RegisterChannel \/ Log \/ LogVector \/ Clear

SpecRec == InitRec /\ [][NextRec]_vars

----------------------------------------------------------------------------
(* Vocabulary of the properties *)

Built == lut # <<>>
Looked == out # <<>>
\* the axes the invoked constructor takes, in validation order, with their names
AxesOf(k, a) ==
    IF k = "lut1d" THEN <<a.x>>
    ELSE IF k = "lut2d" THEN <<a.x, a.y>>
    ELSE IF k = "lut3d" THEN <<a.x, a.y, a.z>>
    ELSE <<>>
AxisName(d) == <<"X", "Y", "Z">>[d]
EmptyErr(d) == <<EmptyXAxis, EmptyYAxis, EmptyZAxis>>[d]
TableAxes(k, t) == AxesOf(k, [x |-> t.x_axis, y |-> t.y_axis, z |-> t.z_axis])

StrictlyIncreasing(axis) == \A i \in 1..(Len(axis) - 1) : axis[i] < axis[i + 1]
ValidAxis(axis) == Len(axis) >= 1 /\ StrictlyIncreasing(axis)
\* source indices i >= 1 with axis[i] <= axis[i-1]
Violations(axis) == {i \in 1..(Len(axis) - 1) : axis[i + 1] <= axis[i]}
Least(S) == CHOOSE m \in S : \A n \in S : m <= n
RECURSIVE Product(_)
Product(lens) == IF lens = <<>> THEN 1 ELSE Head(lens) * Product(Tail(lens))
LenProduct(axes) == Product([d \in 1..Len(axes) |-> Len(axes[d])])
AllAtLeastTwo(axes) == \A d \in 1..Len(axes) : Len(axes[d]) >= 2
\* which constructor step an error belongs to: 1, 2, 3 an axis, 4 the data length
StepOf(r) ==
    IF r.tag = "EmptyXAxis" \/ (r.tag = "UnsortedAxis" /\ r.axis = "X") THEN 1
    ELSE IF r.tag = "EmptyYAxis" \/ (r.tag = "UnsortedAxis" /\ r.axis = "Y") THEN 2
    ELSE IF r.tag = "EmptyZAxis" \/ (r.tag = "UnsortedAxis" /\ r.axis = "Z") THEN 3
    ELSE IF r.tag = "DimensionMismatch" THEN 4
    ELSE 0
\* the constructor steps that fail on the arguments a: an invalid axis 1, 2, 3,
\* a data length that is not the product of the axis lengths 4
FailingSteps(k, a) ==
    {d \in 1..Len(AxesOf(k, a)) : ~ValidAxis(AxesOf(k, a)[d])}
        \cup (IF Len(a.data) # LenProduct(AxesOf(k, a)) THEN {4} ELSE {})

Greatest(S) == CHOOSE m \in S : \A n \in S : m >= n
\* the interval of an axis of two or more breakpoints that a coordinate belongs
\* to: the last one that starts at or below x, the first one when none does,
\* with the fraction of the interval that x has covered, kept within [0, 1]
Locate(axis, x) ==
    LET starts == {i \in 0..(Len(axis) - 2) : axis[i + 1] <= x}
        i   == IF starts = {} THEN 0 ELSE Greatest(starts)
        num == x - axis[i + 1]
        den == axis[i + 2] - axis[i + 1]
    IN  <<i, IF num <= 0 THEN Zero ELSE IF num >= den THEN One ELSE Rat(num, den)>>
\* the weight of the corner at offset a (0 or 1) along an axis with fraction t
Weight(t, a) == IF a = 0 THEN RSub(One, t) ELSE t
RECURSIVE RSum(_)
RSum(s) == IF s = <<>> THEN Zero ELSE RAdd(Head(s), RSum(Tail(s)))

\* a <= b for rationals with positive denominators
RLe(a, b) == a[1] * b[2] <= b[1] * a[2]
\* the samples at the corners of the cell of table t, of kind k, that the
\* coordinates q belong to: 2 in 1D, 4 in 2D, 8 in 3D
CornerSamples(k, t, q) ==
    LET nx == Len(t.x_axis)
        ny == Len(t.y_axis)
        ix == Locate(t.x_axis, q[1])[1]
        iy == IF k = "lut1d" THEN 0 ELSE Locate(t.y_axis, q[2])[1]
        iz == IF k = "lut3d" THEN Locate(t.z_axis, q[3])[1] ELSE 0
        bs == IF k = "lut1d" THEN {0} ELSE {0, 1}
        cs == IF k = "lut3d" THEN {0, 1} ELSE {0}
    IN  {t.data[(iz + c) * nx * ny + (iy + b) * nx + ix + a + 1] :
            a \in {0, 1}, b \in bs, c \in cs}

\* the call of find_interval has returned
Found == fi.at = "done"
\* the statements of find_interval and the operator find_interval agree
StepsAgree == Found => fi.r = <<find_interval(fi.axis, fi.x)>>

\* the channel ids that register_channel has handed out
Registered == DOMAIN logged
Min(a, b) == IF a <= b THEN a ELSE b
\* the last n elements of s, all of s when it has fewer
LastN(s, n) == SubSeq(s, Len(s) - Min(Len(s), n) + 1, Len(s))
\* samples_per_channel of the recorder
N == rec.config.samples_per_channel
\* the values among vs, in order, whose id among ids is c
Components(ids, vs, c) ==
    LET at(k) == ids[k] = c
        pos == SelectSeq([k \in 1..Len(ids) |-> k], at)
    IN  [j \in 1..Len(pos) |-> vs[pos[j]]]
\* what a clear call leaves: no samples, the channels and their metadata kept
Cleared(before, after) ==
    /\ \A id \in Registered :
          /\ sample_count(after, id) = 0
          /\ get_channel_data(after, id) = << <<>> >>
          /\ channel_metadata(after, id) = channel_metadata(before, id)
    /\ channel_count(after) = channel_count(before)
    /\ after.metadata = before.metadata
\* what a log_vector call with ids and values vs leaves in the channel c: what
\* it held, then its components in x, y, z order, the oldest values dropped
Received(before, after, ids, vs, c) ==
    get_channel_data(after, c)
        = <<LastN(get_channel_data(before, c)[1] \o Components(ids, vs, c),
                  before.config.samples_per_channel)>>

\* the lookup of the table's own type at the coordinates q
LookupAt(k, t, q) ==
    IF k = "lut1d" THEN Lut1D_lookup(t, q[1])
    ELSE IF k = "lut2d" THEN Lut2D_lookup(t, q[1], q[2])
    ELSE Lut3D_lookup(t, q[1], q[2], q[3])

----------------------------------------------------------------------------
(* C1: every lookup on a constructed table returns a value: no index it    *)
(* reads from data is out of bounds, single-breakpoint axes included.      *)
C1_LookupNeverFails == Looked => ~out[1].panic

C4_Clamping ==
    (Looked /\ AllAtLeastTwo(TableAxes(kind, lut[1]))) =>
        LET axes == TableAxes(kind, lut[1])
        IN  \A d \in 1..Len(axes) :
              LET first == axes[d][1]
                  last  == axes[d][Len(axes[d])]
              IN  /\ query[d] < first =>
                        out[1] = LookupAt(kind, lut[1], [query EXCEPT ![d] = first])
                  /\ query[d] > last =>
                        out[1] = LookupAt(kind, lut[1], [query EXCEPT ![d] = last])

\* a Lut2D lookup below the X axis and above the Y axis, of a table whose
\* samples differ along both axes
C4_Witness ==
    /\ kind = "lut2d" /\ Looked /\ AllAtLeastTwo(TableAxes(kind, lut[1]))
    /\ query[1] < lut[1].x_axis[1]
    /\ query[2] > lut[1].y_axis[Len(lut[1].y_axis)]
    /\ ~out[1].panic
    /\ Cardinality({lut[1].data[i] : i \in 1..Len(lut[1].data)}) = Len(lut[1].data)

(* C5: when an axis is non-empty and not strictly increasing, and every    *)
(* axis validated before it is valid, the constructor returns UnsortedAxis *)
(* naming that axis, with index the smallest i >= 1 such that              *)
(* axis[i] <= axis[i-1]; equal neighbours count like descending ones.      *)
C5_UnsortedAxis ==
    kind # "none" =>
        LET axes == AxesOf(kind, args)
        IN  \A d \in 1..Len(axes) :
              ( /\ \A e \in 1..(d - 1) : ValidAxis(axes[e])
                /\ Len(axes[d]) >= 1
                /\ Violations(axes[d]) # {} ) =>
                    res = UnsortedAxis(AxisName(d), Least(Violations(axes[d])))

\* the Y axis of a Lut2D has its first violation, a pair of equal neighbours,
\* at index 1 and a later one at index 2; the error names Y and index 1
C5_WitnessY ==
    /\ kind = "lut2d" /\ ValidAxis(args.x)
    /\ Violations(args.y) = {1, 2}
    /\ args.y[2] = args.y[1]
    /\ res = UnsortedAxis("Y", 1)

\* the X axis of a Lut1D rises, then has equal neighbours at index 2 and a
\* descent at index 3; the error names index 2
C5_WitnessLater ==
    /\ kind = "lut1d"
    /\ Violations(args.x) = {2, 3}
    /\ args.x[3] = args.x[2]
    /\ res = UnsortedAxis("X", 2)

(* C6: a zero-length axis whose predecessors in X, Y, Z order are valid    *)
(* makes the constructor return the empty-axis error of that axis,         *)
(* whatever data holds.                                                    *)
C6_EmptyAxis ==
    kind # "none" =>
        LET axes == AxesOf(kind, args)
        IN  \A d \in 1..Len(axes) :
              ( /\ \A e \in 1..(d - 1) : ValidAxis(axes[e])
                /\ Len(axes[d]) = 0 ) => res = EmptyErr(d)

\* Lut3D::new with valid X and Y, an empty Z axis and non-empty data
C6_Witness ==
    /\ kind = "lut3d" /\ ValidAxis(args.x) /\ ValidAxis(args.y)
    /\ args.z = <<>> /\ args.data # <<>>
    /\ res = EmptyZAxis

(* C7: the constructor's result is that of the first failing step in the   *)
(* order X axis, Y axis, Z axis, data length: an earlier invalid axis      *)
(* shadows a later one, and any invalid axis shadows DimensionMismatch.    *)
C7_FailFastOrder ==
    kind # "none" =>
        IF FailingSteps(kind, args) = {} THEN res = Ok
        ELSE StepOf(res) = Least(FailingSteps(kind, args))

\* Lut3D::new with a valid X axis, an unsorted Y axis, an empty Z axis and a
\* data length that does not match: the error is the Y axis's
C7_Witness ==
    /\ kind = "lut3d"
    /\ FailingSteps(kind, args) = {2, 3, 4}
    /\ Len(args.y) >= 2 /\ args.z = <<>>
    /\ res.tag = "UnsortedAxis" /\ res.axis = "Y"

(* C8: when every axis is non-empty and strictly increasing, the           *)
(* constructor returns DimensionMismatch{expected, actual} exactly when    *)
(* data.len() differs from the product of the axis lengths, with expected  *)
(* that product and actual data.len(); otherwise it returns Ok.            *)
C8_DimensionCheck ==
    (kind # "none" /\ \A d \in 1..Len(AxesOf(kind, args)) : ValidAxis(AxesOf(kind, args)[d])) =>
        LET product == LenProduct(AxesOf(kind, args))
        IN  IF Len(args.data) # product
            THEN res = DimensionMismatch(product, Len(args.data))
            ELSE res = Ok

\* Lut3D::new with three valid two-point axes and seven samples
C8_Witness ==
    /\ kind = "lut3d"
    /\ Len(args.x) = 2 /\ Len(args.y) = 2 /\ Len(args.z) = 2
    /\ Len(args.data) = 7
    /\ res = DimensionMismatch(8, 7)

(* C9: a constructor call yields either an error and no table, or Ok and a *)
(* table holding exactly the sequences passed in; every constructed table  *)
(* has non-empty strictly increasing axes and data.len() equal to the      *)
(* product of its axis lengths.                                            *)
C9_NoCoercion ==
    kind # "none" =>
        /\ res # Ok => lut = <<>>
        /\ res = Ok => lut = <<Table(args.x, args.y, args.z, args.data)>>
        /\ Built =>
              /\ \A d \in 1..Len(TableAxes(kind, lut[1])) :
                    ValidAxis(TableAxes(kind, lut[1])[d])
              /\ Len(lut[1].data) = LenProduct(TableAxes(kind, lut[1]))

\* a constructed three by two Lut2D
C9_Witness ==
    /\ kind = "lut2d" /\ Built
    /\ Len(lut[1].x_axis) = 3 /\ Len(lut[1].y_axis) = 2 /\ Len(lut[1].data) = 6

C11_ConcurrentLookups ==
    /\ lut[1] = Table(args.x, args.y, args.z, args.data)
    /\ \A t \in Threads :
          pc[t] = "done" =>
              loc[t].r = <<Lut3D_lookup(lut[1], loc[t].q[1], loc[t].q[2], loc[t].q[3])>>

\* one thread has returned a value while the other, called with other
\* coordinates, has read four of its corners
C11_Witness ==
    /\ pc["t1"] = "done" /\ ~loc["t1"].r[1].panic
    /\ pc["t2"] = "fetch" /\ Len(loc["t2"].c) = 4
    /\ loc["t1"].q # loc["t2"].q
    /\ loc["t1"].tx # loc["t2"].tx

(* C12: a Lut1D built from one breakpoint and one sample v returns v for   *)
(* every x; in a Lut2D or Lut3D, a lookup returns a value that does not    *)
(* change when the coordinate of an axis with exactly one breakpoint is    *)
(* replaced by any other.                                                  *)
C12_SinglePointAxis ==
    Looked =>
        LET axes == TableAxes(kind, lut[1])
        IN  /\ (kind = "lut1d" /\ Len(lut[1].x_axis) = 1) =>
                  out[1] = Value(FromInt(lut[1].data[1]))
            /\ \A d \in 1..Len(axes) :
                  Len(axes[d]) = 1 =>
                      /\ ~out[1].panic
                      /\ \A x \in Queries(MaxLen1) :
                            out[1] = LookupAt(kind, lut[1], [query EXCEPT ![d] = x])

(* C13: within one interval [x_axis[i], x_axis[i+1]] of a Lut1D the lookup *)
(* is linear: at x = x_i + f*(x_{i+1} - x_i), f in [0, 1], it returns      *)
(* data[i] + f*(data[i+1] - data[i]), which is the mean of the two samples *)
(* weighted by the distances of x to the opposite breakpoints.             *)
C13_Linear1D ==
    (kind = "lut1d" /\ Looked) =>
        LET t == lut[1]
            x == query[1]
        IN  \A i \in 1..(Len(t.x_axis) - 1) :
              LET x0 == t.x_axis[i]
                  x1 == t.x_axis[i + 1]
              IN  (x0 <= x /\ x <= x1) =>
                      out[1] = Value(Rat((x1 - x) * t.data[i] + (x - x0) * t.data[i + 1],
                                         x1 - x0))

\* a lookup one quarter into the second interval of a Lut1D, between two
\* different samples
C13_Witness ==
    /\ kind = "lut1d" /\ Looked /\ Len(lut[1].x_axis) >= 3
    /\ lut[1].x_axis[3] - lut[1].x_axis[2] = 4
    /\ query[1] = lut[1].x_axis[2] + 1
    /\ lut[1].data[2] # lut[1].data[3]
    /\ out[1] = Value(Rat(3 * lut[1].data[2] + lut[1].data[3], 4))

(* C14: for a Lut2D whose axes have at least two breakpoints, lookup(x, y) *)
(* is lerp(lerp(v00, v10, tx), lerp(v01, v11, tx), ty), with (xi, tx) and  *)
(* (yi, ty) the intervals of x and y on their own axes and                 *)
(* v_ab = data[(yi+b)*nx + xi + a]: the sum of the four corners, each      *)
(* weighted by tx or 1 - tx and by ty or 1 - ty.  At the centre of the     *)
(* cell with corners 0, 10, 100, 110 the lookup returns 55.                *)
C14_Bilinear ==
    (kind = "lut2d" /\ Looked /\ AllAtLeastTwo(TableAxes(kind, lut[1]))) =>
        LET t  == lut[1]
            nx == Len(t.x_axis)
            ix == Locate(t.x_axis, query[1])
            iy == Locate(t.y_axis, query[2])
            corner(a, b) == t.data[(iy[1] + b) * nx + ix[1] + a + 1]
        IN  /\ out[1] = Value(RSum([k \in 1..4 |->
                    LET a == (k - 1) % 2
                        b == (k - 1) \div 2
                    IN  RMul(RMul(Weight(ix[2], a), Weight(iy[2], b)),
                             FromInt(corner(a, b)))]))
            /\ ( /\ <<corner(0, 0), corner(1, 0), corner(0, 1), corner(1, 1)>>
                        = <<0, 10, 100, 110>>
                 /\ ix[2] = Rat(1, 2) /\ iy[2] = Rat(1, 2) ) =>
                     out[1] = Value(FromInt(55))

\* the lookup at the centre of the first cell of the three by two table of the
\* unit tests: corners 0, 10, 100, 110, result 55
C14_Witness ==
    /\ kind = "lut2d" /\ Looked
    /\ lut[1] = Table(<<0, 2, 4>>, <<0, 2>>, <<>>, <<0, 10, 20, 100, 110, 120>>)
    /\ query = <<1, 1>>
    /\ out[1] = Value(FromInt(55))

C16_RingRetrieval ==
    N >= 1 =>
        \A id \in Registered :
            get_channel_data(rec, id) = <<LastN(logged[id], N)>>

\* a channel of two samples that was cleared and then logged to three times:
\* its buffer holds the newest value before the older one and is read back
\* oldest first
C16_Witness ==
    /\ N = 2
    /\ \E id \in Registered :
          /\ Len(logged[id]) = 3 /\ logged[id][1] > 1
          /\ rec.write_positions[id + 1] = 1
          /\ get_channel_data(rec, id) = <<<<logged[id][2], logged[id][3]>>>>

(* C17: for a registered channel of a recorder with N >= 1, sample_count   *)
(* is min(k, N), k the number of values logged to it since the last clear: *)
(* it grows by one with each log up to N and stays there; it is the length *)
(* of what get_channel_data returns.                                       *)
C17_SampleCount ==
    N >= 1 =>
        \A id \in Registered :
            /\ sample_count(rec, id) = Min(Len(logged[id]), N)
            /\ sample_count(rec, id) = Len(get_channel_data(rec, id)[1])

\* a channel of one sample that was logged to three times
C17_Witness ==
    /\ N = 1
    /\ \E id \in Registered :
          Len(logged[id]) = 3 /\ sample_count(rec, id) = 1

(* C18: a register_channel call made while channel_count is c, below       *)
(* max_channels, returns ChannelId(c), makes channel_count c + 1 and       *)
(* stores the name and unit passed as the metadata of channel c, next to   *)
(* the metadata already there; a call made when channel_count has reached  *)
(* max_channels returns ChannelId(u32::MAX) and leaves the recorder as it  *)
(* was; channel_count never exceeds max_channels.                          *)
C18_Registration ==
    [][ /\ channel_count(rec') <= rec'.config.max_channels
        /\ ret'.op = "register_channel" =>
              IF channel_count(rec) < rec.config.max_channels
              THEN /\ ret'.id = channel_count(rec)
                   /\ channel_count(rec') = channel_count(rec) + 1
                   /\ channel_metadata(rec', ret'.id)
                          = <<[name |-> ret'.name, unit |-> ret'.unit]>>
                   /\ \A i \in 0..(channel_count(rec) - 1) :
                         channel_metadata(rec', i) = channel_metadata(rec, i)
              ELSE /\ ret'.id = U32_MAX
                   /\ rec' = rec ]_vars

\* the third registration of a recorder of two channels: the two channels
\* carry different names, the call returned the dummy id
C18_Witness ==
    /\ rec.config.max_channels = 2 /\ channel_count(rec) = 2
    /\ Registered = {0, 1}
    /\ rec.metadata[1].name # rec.metadata[2].name
    /\ ret.op = "register_channel" /\ ret.id = U32_MAX

(* C19: after clear every registered channel has sample_count 0 and        *)
(* get_channel_data returns an empty sequence, channel_count and the       *)
(* metadata of every channel are what they were, and a log that follows on *)
(* a registered id returns and is recorded as the first sample.            *)
C19_ClearKeepsChannels ==
    [][ /\ ret'.op = "clear" => Cleared(rec, rec')
        /\ (ret.op = "clear" /\ ret'.op = "log" /\ ret'.ids[1] \in Registered) =>
              /\ ~ret'.panic
              /\ get_channel_data(rec', ret'.ids[1]) = <<ret'.vals>> ]_vars

\* C19 for recorders with at least one sample per channel
C19_ClearKeepsChannelsBuffered ==
    [][ N >= 1 =>
          /\ ret'.op = "clear" => Cleared(rec, rec')
          /\ (ret.op = "clear" /\ ret'.op = "log" /\ ret'.ids[1] \in Registered) =>
                /\ ~ret'.panic
                /\ get_channel_data(rec', ret'.ids[1]) = <<ret'.vals>> ]_vars

(* C20: log_vector(id_x, id_y, id_z, v) returns and leaves what log of     *)
(* v.x to id_x, then of v.y to id_y, then of v.z to id_z leave: every      *)
(* registered channel among the three holds its component as its newest    *)
(* sample, a channel named twice or three times its components in x, y, z  *)
(* order; an unregistered id among them changes nothing and does not keep  *)
(* the other components from being written; the metadata stays.            *)
C20_LogVector ==
    [][ ret'.op = "log_vector" =>
          /\ ~ret'.panic
          /\ rec'.metadata = rec.metadata
          /\ \A c \in Registered :
                /\ Received(rec, rec', ret'.ids, ret'.vals, c)
                /\ Components(ret'.ids, ret'.vals, c) # <<>> =>
                      /\ get_channel_data(rec', c)[1] # <<>>
                      /\ LET got == get_channel_data(rec', c)[1]
                             cs  == Components(ret'.ids, ret'.vals, c)
                         IN  got[Len(got)] = cs[Len(cs)] ]_vars

\* C20 for recorders with at least one sample per channel
C20_LogVectorBuffered ==
    [][ (N >= 1 /\ ret'.op = "log_vector") =>
          /\ ~ret'.panic
          /\ rec'.metadata = rec.metadata
          /\ \A c \in Registered :
                /\ Received(rec, rec', ret'.ids, ret'.vals, c)
                /\ Components(ret'.ids, ret'.vals, c) # <<>> =>
                      /\ get_channel_data(rec', c)[1] # <<>>
                      /\ LET got == get_channel_data(rec', c)[1]
                             cs  == Components(ret'.ids, ret'.vals, c)
                         IN  got[Len(got)] = cs[Len(cs)] ]_vars

(* C21: for a strictly increasing axis with at least two breakpoints and   *)
(* axis[0] < x < axis[last], find_interval returns (lo, t) with            *)
(* axis[lo] <= x < axis[lo+1] and t = (x - axis[lo])/(axis[lo+1] -         *)
(* axis[lo]); for x equal to an interior breakpoint axis[i] it returns     *)
(* (i, 0).                                                                 *)
C21_IntervalInside ==
    LET axis == fi.axis
        n    == Len(axis)
        x    == fi.x
    IN  (Found /\ n >= 2 /\ axis[1] < x /\ x < axis[n]) =>
            LET lo == fi.r[1][1]
                t  == fi.r[1][2]
            IN  /\ lo >= 0 /\ lo + 1 <= n - 1
                /\ axis[lo + 1] <= x /\ x < axis[lo + 2]
                /\ t = Rat(x - axis[lo + 1], axis[lo + 2] - axis[lo + 1])
                /\ \A i \in 1..(n - 2) : x = axis[i + 1] => fi.r = << <<i, Zero>> >>

\* a query on the interior breakpoint axis[2] of a six-point axis, found by two
\* iterations of the search
C21_Witness ==
    /\ Found /\ Len(fi.axis) = 6
    /\ fi.x = fi.axis[3]
    /\ fi.iters >= 2
    /\ fi.r = << <<2, Zero>> >>

(* C22: at every iteration of the binary search 0 <= lo < hi <= len-1 and  *)
(* axis[lo] <= x < axis[hi]; every iteration makes hi - lo smaller; the    *)
(* loop is left with hi - lo = 1; the call returns.                        *)
C22_SearchTerminates ==
    /\ [](fi.at = "loop" =>
            /\ 0 <= fi.lo /\ fi.lo < fi.hi /\ fi.hi <= Len(fi.axis) - 1
            /\ fi.axis[fi.lo + 1] <= fi.x /\ fi.x < fi.axis[fi.hi + 1])
    /\ [][(fi.at = "loop" /\ fi'.at = "loop") =>
              fi'.hi - fi'.lo < fi.hi - fi.lo]_vars
    /\ [][(fi.at = "loop" /\ fi'.at = "done") => fi.hi - fi.lo = 1]_vars
    /\ <>Found

\* the search of a six-point axis after its second iteration, lo and hi one
\* apart
C22_Witness ==
    /\ fi.at = "loop" /\ Len(fi.axis) = 6
    /\ fi.iters = 2 /\ fi.lo > 0 /\ fi.hi < 5
    /\ fi.hi - fi.lo = 1

(* C23: for a non-empty axis and x <= axis[0], find_interval returns       *)
(* (0, 0.0); for an axis of two or more breakpoints and x >= axis[last]    *)
(* it returns (len-2, 1.0); in both cases, a query on the first or last    *)
(* breakpoint included, the binary search is not entered.                  *)
C23_ClampResults ==
    LET axis == fi.axis
        n    == Len(axis)
        x    == fi.x
    IN  fi.at # "idle" =>
            /\ (x <= axis[1] \/ x >= axis[n]) =>
                  /\ fi.at # "loop"
                  /\ fi.iters = 0 /\ fi.hi = 0
            /\ (Found /\ x <= axis[1]) => fi.r = << <<0, Zero>> >>
            /\ (Found /\ n >= 2 /\ x >= axis[n]) => fi.r = << <<n - 2, One>> >>

\* a query on the last breakpoint of a five-point axis
C23_Witness ==
    /\ Found /\ Len(fi.axis) = 5
    /\ fi.x = fi.axis[5]
    /\ fi.hi = 0
    /\ fi.r = << <<3, One>> >>

(* C24, as stated: for an axis with exactly one breakpoint and every       *)
(* x >= axis[0], x = axis[0] included, find_interval returns index 0 with  *)
(* fraction 1.0.                                                           *)
C24_SinglePointAsStated ==
    (Found /\ Len(fi.axis) = 1 /\ fi.x >= fi.axis[1]) => fi.r = << <<0, One>> >>

(* C24, amended: for an axis with exactly one breakpoint find_interval     *)
(* returns index 0 with fraction 1.0 for every x > axis[0], and index 0    *)
(* with fraction 0.0 for every x <= axis[0], x = axis[0] included.         *)
C24_SinglePoint ==
    (Found /\ Len(fi.axis) = 1) =>
        /\ fi.x > fi.axis[1] => fi.r = << <<0, One>> >>
        /\ fi.x <= fi.axis[1] => fi.r = << <<0, Zero>> >>

\* a query above the only breakpoint of an axis
C24_Witness ==
    /\ Found /\ Len(fi.axis) = 1
    /\ fi.x > fi.axis[1]
    /\ fi.r = << <<0, One>> >>

(* C25: for a strictly increasing non-empty axis and any x, find_interval  *)
(* returns (lo, t) with 0 <= t <= 1 and 0 <= lo <= max(len-2, 0); lo + 1   *)
(* is an index of the axis when it has two or more breakpoints.            *)
C25_ResultRange ==
    Found =>
        LET n  == Len(fi.axis)
            lo == fi.r[1][1]
            t  == fi.r[1][2]
        IN  /\ 0 <= t[1] /\ t[1] <= t[2]
            /\ 0 <= lo /\ lo <= (IF n >= 2 THEN n - 2 ELSE 0)
            /\ n >= 2 => lo + 1 <= n - 1

\* a query three quarters into the last interval of a four-point axis
C25_Witness ==
    /\ Found /\ Len(fi.axis) = 4
    /\ fi.r = << <<2, Rat(3, 4)>> >>

C27_UnregisteredIgnored ==
    /\ [](\A id \in Ids : beyond(id, channel_count(rec)) =>
             /\ get_channel_data(rec, id) = <<>>
             /\ channel_metadata(rec, id) = <<>>
             /\ sample_count(rec, id) = 0)
    /\ [][(/\ ret'.op \in {"log", "log_vector"}
           /\ \A k \in DOMAIN ret'.ids : beyond(ret'.ids[k], channel_count(rec)))
          => (rec' = rec /\ ~ret'.panic)]_vars

\* the dummy id was logged to a recorder holding samples of a registered
\* channel, and an id of a channel never registered as well
C27_Witness ==
    /\ ret.op = "log" /\ ret.ids = <<U32_MAX>> /\ ~ret.panic
    /\ channel_count(rec) = 1 /\ sample_count(rec, 0) = 2
    /\ stamp = 4 /\ rec.data = <<1, 3>>

\* channel j has in recorder b the stored samples, write position, sample
\* count, metadata and retrieved data it has in recorder a
SameChannel(a, b, j) ==
    LET n == a.config.samples_per_channel
    IN  /\ b.config = a.config
        /\ slice(b, j * n, (j + 1) * n) = slice(a, j * n, (j + 1) * n)
        /\ b.write_positions[j + 1] = a.write_positions[j + 1]
        /\ b.sample_counts[j + 1] = a.sample_counts[j + 1]
        /\ channel_metadata(b, j) = channel_metadata(a, j)
        /\ get_channel_data(b, j) = get_channel_data(a, j)

(* C28: channels are isolated.  A log to a registered channel, and a       *)
(* log_vector, leave the stored samples, write position, sample count and  *)
(* retrieved data of every channel they do not name as they were, and the  *)
(* metadata and the length of data too; a register_channel that adds a     *)
(* channel leaves every channel that existed as it was.                    *)
C28_ChannelIsolation ==
    [][/\ ret'.op \in {"log", "log_vector"} =>
              /\ rec'.metadata = rec.metadata
              /\ Len(rec'.data) = Len(rec.data)
              /\ \A j \in 0..(channel_count(rec) - 1) :
                     (\A k \in DOMAIN ret'.ids : ret'.ids[k] # j) =>
                         SameChannel(rec, rec', j)
       /\ (ret'.op = "register_channel" /\ ret'.id # U32_MAX) =>
              \A j \in 0..(channel_count(rec) - 1) : SameChannel(rec, rec', j)
      ]_vars

\* a log to the second of two channels has wrapped its ring while the first
\* channel holds the one sample logged to it
C28_Witness ==
    /\ ret.op = "log" /\ ret.ids = <<1>> /\ ~ret.panic
    /\ channel_count(rec) = 2 /\ N = 2
    /\ get_channel_data(rec, 0) = << <<1>> >>
    /\ get_channel_data(rec, 1) = << <<3, 4>> >>

(* C29: with samples_per_channel N >= 1, after any sequence of             *)
(* register_channel, log, log_vector and clear: metadata, write_positions  *)
(* and sample_counts all have length channel_count <= max_channels, data   *)
(* has length channel_count * N, every write position is below N, every    *)
(* sample count is at most N, and the write position of a channel equals   *)
(* its sample count as long as the count is below N; no call has failed.   *)
C29_StructuralInvariants ==
    N >= 1 =>
        /\ Len(rec.metadata) = channel_count(rec)
        /\ Len(rec.write_positions) = channel_count(rec)
        /\ Len(rec.sample_counts) = channel_count(rec)
        /\ channel_count(rec) <= rec.config.max_channels
        /\ Len(rec.data) = channel_count(rec) * N
        /\ ~ret.panic
        /\ \A i \in 1..channel_count(rec) :
              /\ 0 <= rec.write_positions[i] /\ rec.write_positions[i] < N
              /\ 0 <= rec.sample_counts[i] /\ rec.sample_counts[i] <= N
              /\ rec.sample_counts[i] < N =>
                     rec.write_positions[i] = rec.sample_counts[i]

\* one channel is full with its write position wrapped to 0 and the other
\* holds one sample
C29_Witness ==
    /\ N = 2 /\ channel_count(rec) = 2
    /\ rec.sample_counts = <<2, 1>>
    /\ rec.write_positions = <<0, 1>>
    /\ rec.data = <<2, 3, 4, 0>>

\* for_duration gives no sample per channel for a zero duration or rate, and
\* the least whole number of samples covering the duration otherwise
ForDurationSamples ==
    \A d \in Durations, r \in Rates :
        LET n == for_duration(d, r, 1).samples_per_channel
        IN  /\ (d = Zero \/ r = Zero) <=> n = 0
            /\ RLe(RMul(d, r), FromInt(n))
            /\ n > 0 => ~RLe(RMul(d, r), FromInt(n - 1))

(* C30: for every RingBufferConfig, samples_per_channel = 0 included, and  *)
(* every registered channel idx, log completes without failure and writes  *)
(* exactly one element of data, inside [idx * N, (idx + 1) * N).           *)
C30_LogInBounds ==
    [][(ret'.op = "log" /\ ~beyond(ret'.ids[1], channel_count(rec))) =>
          /\ ~ret'.panic
          /\ \E k \in (ret'.ids[1] * N + 1)..((ret'.ids[1] + 1) * N) :
                 rec'.data = [rec.data EXCEPT ![k] = ret'.vals[1]]
      ]_vars

\* the same for recorders with at least one sample per channel
C30_LogInBoundsBuffered ==
    [][(N >= 1 /\ ret'.op = "log" /\ ~beyond(ret'.ids[1], channel_count(rec))) =>
          /\ ~ret'.panic
          /\ \E k \in (ret'.ids[1] * N + 1)..((ret'.ids[1] + 1) * N) :
                 rec'.data = [rec.data EXCEPT ![k] = ret'.vals[1]]
      ]_vars

====
